---- MODULE Spec2Model ----
(***************************************************************************)
(* Verification model of the watertap / proteuslib flowsheet components:   *)
(*   - the MVC evaporator unit model Feed_side (build, staged initialize), *)
(*   - the flowsheet costing module financials (parameter block, per-unit  *)
(*     costing methods, system costing),                                   *)
(*   - Feed_side.calculate_scaling_factors,                                *)
(*   - the parameter load of the zero-order aeration basin,                *)
(*   - the 0D reverse-osmosis example runs of unit_0DRO.                   *)
(* SpecEvap drives the evaporator, SpecCost the costing module, SpecScale  *)
(* the scaling pass, SpecZO the aeration basin and SpecRO the examples.    *)
(***************************************************************************)
EXTENDS Integers, Sequences, FiniteSets, TLC

VARIABLES
    config,        \* Feed_side.config: which property packages were supplied
    components,    \* names of the components constructed on the evaporator
    fixed,         \* the variables of the evaporator that are fixed
    evap_pc,       \* position of the evaporator's life cycle
    error,         \* the exception that ended build/initialize ("none" if none)
    flags,         \* <<>> or <<F>>: flags returned by properties_feed.initialize
    release_flags, \* <<>> or <<F>>: flags handed to properties_feed.release_state
    res,           \* termination condition of opt.solve ("none" before it)
    ret,           \* what initialize returned ("unset" until it returns)
    init_log,      \* messages written to init_log by initialize
    trace,         \* the stages initialize has performed, in order
    fixed_before   \* the fixed variables at the moment initialize was called

evapVars == <<config, components, fixed, evap_pc, error, flags, release_flags,
              res, ret, init_log, trace, fixed_before>>

VARIABLES
    costing_param, \* fs.costing_param: parameter name -> Var (empty before it is built)
    params_pc,     \* outcome of add_costing_param_block: absent, returned, raised
    params_msg,    \* <<>> or the <<block, parameter>> the ConfigurationError names
    unit_costing,  \* unit -> the costing block attached to the unit
    fs_costing,    \* fs.costing, the system costing block
    sys_calls,     \* number of get_system_costing calls made
    sys_error      \* the exception that ended the last get_system_costing call

costVars == <<costing_param, params_pc, params_msg, unit_costing, fs_costing,
              sys_calls, sys_error>>

VARIABLES
    values,        \* value of each state variable of properties_feed
    call_args,     \* <<>> (None) or <<d>>: the state_args initialize was called with
    state_args,    \* <<>> or <<d>>: the local state_args after lines 287-298
    args_brine,    \* <<>> or <<d>>: state_args handed to properties_brine.initialize
    args_vapor     \* <<>> or <<d>>: state_args handed to properties_vapor.initialize

argVars == <<values, call_args, state_args, args_brine, args_vapor>>

VARIABLES
    scaling_factor,  \* the scaling_factor suffix: component -> <<>> (none) or <<sf>>
    default_scaling, \* <<>> or <<sf>>: the vapor package's scale for enth_flow_phase
    scale_before,    \* scaling_factor at the call of calculate_scaling_factors
    scale_trace,     \* the scaling passes performed, in order
    scale_error      \* the exception that ended calculate_scaling_factors

scaleVars == <<scaling_factor, default_scaling, scale_before, scale_trace,
               scale_error>>

VARIABLES
    zo_config,     \* AerationBasinZO.config: solute_list, process_subtype
    zo_vars,       \* parameter Var of the unit -> [value, fixed]
    zo_pc,         \* unbuilt, built, loaded, raised
    zo_default,    \* the use_default_removal argument of the last load
    zo_error       \* the exception that ended load_parameters_from_database

zoVars == <<zo_config, zo_vars, zo_pc, zo_default, zo_error>>

VARIABLES
    ro_entry,      \* the function of unit_0DRO that was called
    ro_example,    \* the example being run: none, simple, detailed
    ro_pc,         \* position in the example run
    ro_fixed,      \* the specifications of m.fs.RO fixed so far
    ro_scaling,    \* the indices set_default_scaling was called for
    ro_trace,      \* the steps of the current run, in order
    ro_error,      \* the exception that ended the run ("none" if none)
    ro_runs        \* <<example, termination>> of every run that has reported

roVars == <<ro_entry, ro_example, ro_pc, ro_fixed, ro_scaling, ro_trace,
            ro_error, ro_runs>>

vars == <<evapVars, costVars, argVars, scaleVars, zoVars, roVars>>

-----------------------------------------------------------------------------
(* Variables of the evaporator *)

\* state variables of a state block of the feed property package
\* (phase Liq, components of component_list) and of the vapor package
StateVarNames(blk) ==
    IF blk = "properties_vapor"
    THEN {"flow_mass_phase_comp[Liq,H2O]", "flow_mass_phase_comp[Vap,H2O]",
          "temperature", "pressure"}
    ELSE {"flow_mass_phase_comp[Liq,H2O]", "flow_mass_phase_comp[Liq,TDS]",
          "temperature", "pressure"}

StateVars(blk) == {<<blk, n>> : n \in StateVarNames(blk)}

StateBlocks == {"properties_feed", "properties_brine", "properties_vapor"}

Ports == {"inlet_feed", "outlet_brine", "outlet_vapor"}

BalanceConstraints ==
    {"eq_mass_balance", "eq_energy_balance", "eq_brine_temperature",
     "eq_vapor_pressure", "eq_vapor_temperature"}

UnitVars == {"heat_transfer"}

heat_transfer == <<"unit", "heat_transfer">>

\* the variables a user may fix between build and initialize
UserVars == StateVars("properties_feed") \cup StateVars("properties_brine")
            \cup {heat_transfer}

-----------------------------------------------------------------------------
(* State block protocol (property package) *)

\* fix_state_vars: the flags record which state variables were already fixed
fix_state_vars(f, blk) == f \cap StateVars(blk)

\* release_state(flags): unfix the state variables the hold fixed
release_state(f, blk, fl) == f \ (StateVars(blk) \ fl)

\* StateBlock.initialize(hold_state): fixes every state variable; without
\* hold_state it releases them again before returning
StateBlockInitialize(f, blk, hold_state) ==
    LET fl   == fix_state_vars(f, blk)
        held == f \cup StateVars(blk)
    IN  IF hold_state THEN held ELSE release_state(held, blk, fl)

-----------------------------------------------------------------------------
(* Port members and state_args *)

\* define_port_members() of the feed state block
PortMembers == {"flow_mass_phase_comp", "temperature", "pressure"}

is_indexed(k) == k = "flow_mass_phase_comp"

\* the (phase, component) indices of flow_mass_phase_comp on the feed block
FeedIndex == {"Liq,H2O", "Liq,TDS"}

\* the state variable behind index m of port member k
MemberVar(k, m) == k \o "[" \o m \o "]"

\* values a flowsheet script gives to a feed state variable
GuessValues == {1, 2}

\* values found in a state_args dictionary supplied by the caller
SuppliedValues == {3}

\* a state_args dictionary with the keys ks, every entry x
ArgsDict(ks, x) ==
    [k \in ks |-> IF is_indexed(k) THEN [m \in FeedIndex |-> x] ELSE x]

\* the state_args argument of initialize: None (the default), a full
\* dictionary, or one that leaves the pressure out
CallerArgs ==
    {<<>>} \cup {<<ArgsDict(ks, x)>> : ks \in {PortMembers, PortMembers \ {"pressure"}},
                                       x \in SuppliedValues}

\* the entry of dictionary d for state variable v: <<>> when it has none
ArgFor(d, v) ==
    IF v \in PortMembers
    THEN IF v \in DOMAIN d THEN <<d[v]>> ELSE <<>>
    ELSE IF "flow_mass_phase_comp" \in DOMAIN d
         THEN LET m == CHOOSE i \in FeedIndex : MemberVar("flow_mass_phase_comp", i) = v
              IN  <<d["flow_mass_phase_comp"][m]>>
         ELSE <<>>

\* fix_state_vars with state_args: a state variable that is not fixed takes
\* the value state_args holds for it; every other one keeps its value
fix_values(vals, f, a) ==
    [v \in DOMAIN vals |->
        IF a # <<>> /\ <<"properties_feed", v>> \notin f /\ ArgFor(a[1], v) # <<>>
        THEN ArgFor(a[1], v)[1]
        ELSE vals[v]]

\* variant: the feed values are copied even when the caller supplied state_args
derive_state_args_always(a, vals) ==
    <<[k \in PortMembers |->
         IF is_indexed(k) THEN [m \in FeedIndex |-> vals[MemberVar(k, m)]]
         ELSE vals[k]]>>

\* lines 287-298: when state_args is None it is built from the port members
\* of properties_feed at the first time point
derive_state_args(a, vals) ==
    IF a = <<>>
    THEN <<[k \in PortMembers |->
              IF is_indexed(k) THEN [m \in FeedIndex |-> vals[MemberVar(k, m)]]
              ELSE vals[k]]>>
    ELSE a

\* the lower bound of properties_vapor[0].flow_mass_phase_comp['Liq','H2O']
vapor_liq_lb == 0

\* the keys lines 308-312 read from state_args
HasVaporKeys(d) ==
    /\ {"pressure", "temperature", "flow_mass_phase_comp"} \subseteq DOMAIN d
    /\ "Liq,H2O" \in DOMAIN d["flow_mass_phase_comp"]

\* variant: the two water flows of the vapor guess are exchanged
state_args_vapor_exchanged(d) ==
    [k \in PortMembers |->
        IF is_indexed(k)
        THEN [m \in {"Liq,H2O", "Vap,H2O"} |->
                 IF m = "Vap,H2O" THEN vapor_liq_lb
                 ELSE d["flow_mass_phase_comp"]["Liq,H2O"]]
        ELSE d[k]]

\* lines 307-312: state_args_vapor
state_args_vapor(d) ==
    [k \in PortMembers |->
        IF is_indexed(k)
        THEN [m \in {"Liq,H2O", "Vap,H2O"} |->
                 IF m = "Liq,H2O" THEN vapor_liq_lb
                 ELSE d["flow_mass_phase_comp"]["Liq,H2O"]]
        ELSE d[k]]

-----------------------------------------------------------------------------
(* Feed_side.build *)

ConfigInit ==
    config \in [property_package_feed : BOOLEAN, property_package_vapor : BOOLEAN]

EvapStart ==
    /\ components = {}
    /\ fixed = {}
    /\ evap_pc = "unbuilt"
    /\ error = "none"
    /\ flags = <<>>
    /\ release_flags = <<>>
    /\ res = "none"
    /\ ret = "unset"
    /\ init_log = <<>>
    /\ trace = <<>>
    /\ fixed_before = {}
    /\ values = <<>>
    /\ call_args = <<>>
    /\ state_args = <<>>
    /\ args_brine = <<>>
    /\ args_vapor = <<>>

BuildFails(msg) ==
    /\ evap_pc' = "build_failed"
    /\ error' = msg
    /\ UNCHANGED <<components, fixed, values>>

BuildConstructs ==
    /\ components' = {"scaling_factor"} \cup UnitVars \cup StateBlocks
                        \cup Ports \cup BalanceConstraints
       \* the eq_mass_balance rule fixes the vapor block's liquid flow at its lb
    /\ fixed' = {<<"properties_vapor", "flow_mass_phase_comp[Liq,H2O]">>}
       \* the state variables start at the value the package initializes them to
    /\ values' = [v \in StateVarNames("properties_feed") |-> 1]
    /\ evap_pc' = "built"
    /\ error' = "none"

\* variant: the vapor package is checked only after the state blocks exist
build_late_check ==
    /\ evap_pc = "unbuilt"
    /\ IF ~config.property_package_feed
       THEN BuildFails("ConfigurationError: feed property package")
       ELSE IF ~config.property_package_vapor
            THEN /\ components' = {"scaling_factor"} \cup UnitVars
                                      \cup {"properties_feed", "properties_brine"}
                 /\ evap_pc' = "build_failed"
                 /\ error' = "ConfigurationError: vapor property package"
                 /\ UNCHANGED <<fixed, values>>
            ELSE BuildConstructs
    /\ UNCHANGED <<config, flags, release_flags, res, ret, init_log, trace,
                   fixed_before>>
    /\ UNCHANGED <<call_args, state_args, args_brine, args_vapor>>
    /\ UNCHANGED <<costVars, scaleVars, zoVars, roVars>>

build ==
    /\ evap_pc = "unbuilt"
    /\ IF ~config.property_package_feed
       THEN BuildFails("ConfigurationError: feed property package")
       ELSE IF ~config.property_package_vapor
            THEN BuildFails("ConfigurationError: vapor property package")
            ELSE BuildConstructs
    /\ UNCHANGED <<config, flags, release_flags, res, ret, init_log, trace,
                   fixed_before>>
    /\ UNCHANGED <<call_args, state_args, args_brine, args_vapor>>
    /\ UNCHANGED <<costVars, scaleVars, zoVars, roVars>>

\* the flowsheet script fixes or unfixes a variable before initialization
UserFix ==
    /\ evap_pc = "built"
    /\ \E v \in UserVars \ fixed : fixed' = fixed \cup {v}
    /\ UNCHANGED <<config, components, evap_pc, error, flags, release_flags,
                   res, ret, init_log, trace, fixed_before>>
    /\ UNCHANGED argVars
    /\ UNCHANGED <<costVars, scaleVars, zoVars, roVars>>

\* the flowsheet script gives a feed state variable a value
UserSetValue ==
    /\ evap_pc = "built"
    /\ \E v \in DOMAIN values, x \in GuessValues :
          /\ values[v] # x
          /\ values' = [values EXCEPT ![v] = x]
    /\ UNCHANGED <<config, components, fixed, evap_pc, error, flags,
                   release_flags, res, ret, init_log, trace, fixed_before>>
    /\ UNCHANGED <<call_args, state_args, args_brine, args_vapor>>
    /\ UNCHANGED <<costVars, scaleVars, zoVars, roVars>>

-----------------------------------------------------------------------------
(* Feed_side.initialize *)

\* outcomes of opt.solve: it returns results with a termination condition,
\* or raises (solver crash, results with a bad status)
SolverReturns == {"optimal", "infeasible", "maxIterations"}

\* lines 275-298: properties_feed.initialize(state_args, hold_state=True),
\* then state_args is derived from the feed when the caller gave none
InitializeFeed ==
    /\ evap_pc = "built"
    /\ \E a \in CallerArgs :
          /\ call_args' = a
          /\ values' = fix_values(values, fixed, a)
          /\ state_args' = derive_state_args(a, values')
    /\ fixed_before' = fixed
    /\ flags' = <<fix_state_vars(fixed, "properties_feed")>>
    /\ fixed' = StateBlockInitialize(fixed, "properties_feed", TRUE)
    /\ trace' = Append(trace, "feed_hold")
    /\ init_log' = Append(init_log, <<"Initialization Step 1 Complete.", "">>)
    /\ evap_pc' = "feed_initialized"
    /\ UNCHANGED <<config, components, error, release_flags, res, ret>>
    /\ UNCHANGED <<args_brine, args_vapor>>
    /\ UNCHANGED <<costVars, scaleVars, zoVars, roVars>>

\* variant: the brine block is initialized holding its state
InitializeBrineHolding ==
    /\ evap_pc = "feed_initialized"
    /\ args_brine' = state_args
    /\ fixed' = StateBlockInitialize(fixed, "properties_brine", TRUE)
    /\ trace' = Append(trace, "brine")
    /\ evap_pc' = "brine_initialized"
    /\ UNCHANGED <<config, components, error, flags, release_flags, res, ret,
                   init_log, fixed_before>>
    /\ UNCHANGED <<values, call_args, state_args, args_vapor>>
    /\ UNCHANGED <<costVars, scaleVars, zoVars, roVars>>

\* lines 300-305: properties_brine.initialize(state_args) without hold_state
InitializeBrine ==
    /\ evap_pc = "feed_initialized"
    /\ args_brine' = state_args
    /\ fixed' = StateBlockInitialize(fixed, "properties_brine", FALSE)
    /\ trace' = Append(trace, "brine")
    /\ evap_pc' = "brine_initialized"
    /\ UNCHANGED <<config, components, error, flags, release_flags, res, ret,
                   init_log, fixed_before>>
    /\ UNCHANGED <<values, call_args, state_args, args_vapor>>
    /\ UNCHANGED <<costVars, scaleVars, zoVars, roVars>>

\* lines 307-319: state_args_vapor is read out of state_args (a missing key
\* raises KeyError), then properties_vapor.initialize without hold_state
InitializeVapor ==
    /\ evap_pc = "brine_initialized"
    /\ IF HasVaporKeys(state_args[1])
       THEN /\ args_vapor' = <<state_args_vapor(state_args[1])>>
            /\ fixed' = StateBlockInitialize(fixed, "properties_vapor", FALSE)
            /\ trace' = Append(trace, "vapor")
            /\ init_log' = Append(init_log, <<"Initialization Step 2 Complete.", "">>)
            /\ evap_pc' = "downstream_initialized"
            /\ error' = error
       ELSE /\ error' = "KeyError"
            /\ evap_pc' = "raised"
            /\ UNCHANGED <<args_vapor, fixed, trace, init_log>>
    /\ UNCHANGED <<config, components, flags, release_flags, res, ret,
                   fixed_before>>
    /\ UNCHANGED <<values, call_args, state_args, args_brine>>
    /\ UNCHANGED <<costVars, scaleVars, zoVars, roVars>>

\* lines 322-325: opt.solve returns a termination condition
SolveReturns ==
    /\ evap_pc = "downstream_initialized"
    /\ \E tc \in SolverReturns :
          /\ res' = tc
          /\ init_log' = Append(init_log, <<"Initialization Step 3", tc>>)
    /\ trace' = Append(trace, "solve")
    /\ evap_pc' = "solved"
    /\ UNCHANGED <<config, components, fixed, error, flags, release_flags, ret,
                   fixed_before>>
    /\ UNCHANGED argVars
    /\ UNCHANGED <<costVars, scaleVars, zoVars, roVars>>

\* line 323: opt.solve raises; nothing in initialize catches it
SolveRaises ==
    /\ evap_pc = "downstream_initialized"
    /\ trace' = Append(trace, "solve")
    /\ error' = "solver exception"
    /\ evap_pc' = "raised"
    /\ UNCHANGED <<config, components, fixed, flags, release_flags, res, ret,
                   init_log, fixed_before>>
    /\ UNCHANGED argVars
    /\ UNCHANGED <<costVars, scaleVars, zoVars, roVars>>

\* variant: returns without releasing the feed block
ReturnWithoutRelease ==
    /\ evap_pc = "solved"
    /\ trace' = trace
    /\ init_log' = Append(init_log, <<"Initialization Complete", res>>)
    /\ ret' = "None"
    /\ evap_pc' = "returned"
    /\ UNCHANGED <<config, components, fixed, error, flags, release_flags, res,
                   fixed_before>>
    /\ UNCHANGED argVars
    /\ UNCHANGED <<costVars, scaleVars, zoVars, roVars>>

\* variant: releases, then raises when the termination is not optimal
ReleaseAndRaiseIfNotOptimal ==
    /\ evap_pc = "solved"
    /\ release_flags' = flags
    /\ fixed' = release_state(fixed, "properties_feed", flags[1])
    /\ trace' = Append(trace, "release")
    /\ init_log' = Append(init_log, <<"Initialization Complete", res>>)
    /\ IF res = "optimal"
       THEN ret' = "None" /\ evap_pc' = "returned" /\ error' = error
       ELSE ret' = ret /\ evap_pc' = "raised" /\ error' = "InitializationError"
    /\ UNCHANGED <<config, components, flags, res, fixed_before>>
    /\ UNCHANGED argVars
    /\ UNCHANGED <<costVars, scaleVars, zoVars, roVars>>

\* lines 329-333: release_state(flags), final log message, return None
ReleaseAndReturn ==
    /\ evap_pc = "solved"
    /\ release_flags' = flags
    /\ fixed' = release_state(fixed, "properties_feed", flags[1])
    /\ trace' = Append(trace, "release")
    /\ init_log' = Append(init_log, <<"Initialization Complete", res>>)
    /\ ret' = "None"
    /\ evap_pc' = "returned"
    /\ UNCHANGED <<config, components, error, flags, res, fixed_before>>
    /\ UNCHANGED argVars
    /\ UNCHANGED <<costVars, scaleVars, zoVars, roVars>>

EvapNext ==
    \/ build
    \/ UserFix
    \/ UserSetValue
    \/ InitializeFeed
    \/ InitializeBrine
    \/ InitializeVapor
    \/ SolveReturns
    \/ SolveRaises
    \/ ReleaseAndReturn

-----------------------------------------------------------------------------
(* financials.add_costing_param_block *)

\* a Pyomo Var: value, lb and ub are <<>> (None) or <<x>>
Var(initialize) == [value |-> initialize, fixed |-> FALSE, lb |-> <<>>, ub |-> <<>>]

\* the Vars in declaration order (component_objects iterates in this order)
ParamOrder ==
    <<"load_factor", "factor_total_investment", "factor_MLC",
      "factor_capital_annualization", "factor_membrane_replacement",
      "electricity_cost", "RO_mem_cost", "NF_mem_cost", "hp_pump_cost",
      "pxr_cost", "chemical_lime_cost">>

ParamNames == {ParamOrder[i] : i \in 1..Len(ParamOrder)}

\* the initialize= values, in thousandths
ParamInitialize ==
    [load_factor |-> <<900>>, factor_total_investment |-> <<2000>>,
     factor_MLC |-> <<30>>, factor_capital_annualization |-> <<100>>,
     factor_membrane_replacement |-> <<200>>, electricity_cost |-> <<70>>,
     RO_mem_cost |-> <<30000>>, NF_mem_cost |-> <<15000>>,
     hp_pump_cost |-> <<1908>>, pxr_cost |-> <<535000>>,
     chemical_lime_cost |-> <<1000>>]

\* lines 28-61: the Vars declared on the block
DeclareParams == [n \in ParamNames |-> Var(ParamInitialize[n])]

\* variant: fix() outside the loop, so only the last Var gets fixed
FixParamLastOnly(b, n) ==
    IF n = "chemical_lime_cost" THEN [b EXCEPT ![n].fixed = TRUE] ELSE b

\* v[i].fix()
FixParam(b, n) == [b EXCEPT ![n].fixed = TRUE]

\* lines 64-71: raise on the first Var without a value, fix the others
RECURSIVE FixLoop(_, _)
FixLoop(b, i) ==
    IF i > Len(ParamOrder)
    THEN [block |-> b, error |-> "none", msg |-> <<>>]
    ELSE LET n == ParamOrder[i]
         IN  IF b[n].value = <<>>
             THEN [block |-> b, error |-> "ConfigurationError",
                   msg |-> <<"fs.costing_param", n>>]
             ELSE FixLoop(FixParam(b, n), i + 1)

add_costing_param_block ==
    /\ params_pc = "absent"
    /\ LET out == FixLoop(DeclareParams, 1)
       IN  /\ costing_param' = out.block
           /\ params_msg' = out.msg
           /\ params_pc' = IF out.error = "none" THEN "returned" ELSE "raised"
    /\ UNCHANGED <<unit_costing, fs_costing, sys_calls, sys_error>>
    /\ UNCHANGED <<evapVars, argVars, scaleVars, zoVars, roVars>>

-----------------------------------------------------------------------------
(* The flowsheet the costing module works on *)

NumUnits == 2

MaxCalls == 2

UnitName(i) == "unit" \o ToString(i)

\* unit blocks in declaration order
UnitOrder == [i \in 1..NumUnits |-> UnitName(i)]

Units == {UnitOrder[i] : i \in 1..NumUnits}

\* even-numbered units are declared inside a sub-flowsheet block of fs
parent_block(u) ==
    IF \E i \in 1..NumUnits : u = UnitName(i) /\ i % 2 = 0 THEN "fs.sub" ELSE "fs"

\* a unit without costing block; a costing block as get_costing creates it
NoCosting ==
    [method |-> "none", pump_type |-> "", comps |-> {}, refs |-> {},
     cap_lb |-> <<>>, op_lb |-> <<>>, op_ub |-> <<>>, op_fixed |-> FALSE,
     raised |-> "none"]

Block(method, pump_type) ==
    [NoCosting EXCEPT !.method = method, !.pump_type = pump_type]

-----------------------------------------------------------------------------
(* financials: per-unit costing methods.  Each takes the unit, its fresh     *)
(* costing block and fs.costing_param, and yields the costing block and the  *)
(* parameter block as the method leaves them.  A statement after a raised    *)
(* exception is not executed.                                                *)

make_vars(c) ==
    [c EXCEPT !.comps = @ \cup {"capital_cost", "operating_cost"},
              !.cap_lb = <<0>>, !.op_lb = <<0>>, !.op_ub = <<1000000>>]

\* b_fs.costing_param.<n> exists: b_fs, the parent of the unit, is the block
\* add_costing_param_block ran on, and n is declared there
HasParam(u, cp, n) == parent_block(u) = "fs" /\ n \in DOMAIN cp

\* self.<name> = Constraint(expr=... b_fs.costing_param.<n> ...)
AddConstraint(c, u, cp, name, params) ==
    IF c.raised # "none" THEN c
    ELSE IF \A n \in params : HasParam(u, cp, n)
         THEN [c EXCEPT !.comps = @ \cup {name}, !.refs = @ \cup params]
         ELSE [c EXCEPT !.raised = "AttributeError"]

\* self.operating_cost.fix(0)
FixOperatingCost(c) ==
    IF c.raised # "none" THEN c ELSE [c EXCEPT !.op_fixed = TRUE]

\* self.operating_cost.setlb(-1e6)
SetOperatingLb(c) ==
    IF c.raised # "none" THEN c ELSE [c EXCEPT !.op_lb = <<-1000000>>]

Effect(c, cp) == [costing |-> c, costing_param |-> cp]

ReverseOsmosis_costing(self, u, cp) ==
    LET c0 == make_vars(self)
        c1 == AddConstraint(c0, u, cp, "eq_capital_cost", {"RO_mem_cost"})
        c2 == AddConstraint(c1, u, cp, "eq_operating_cost",
                            {"factor_membrane_replacement", "RO_mem_cost"})
    IN  Effect(c2, cp)

Nanofiltration_costing(self, u, cp) ==
    LET c0 == make_vars(self)
        c1 == AddConstraint(c0, u, cp, "eq_capital_cost", {"NF_mem_cost"})
        c2 == AddConstraint(c1, u, cp, "eq_operating_cost",
                            {"factor_membrane_replacement", "NF_mem_cost"})
    IN  Effect(c2, cp)

Chlorination_costing(self, u, cp) == Effect(make_vars(self), cp)

rstoic_costing(self, u, cp) == Effect(make_vars(self), cp)

Separator_costing(self, u, cp) == Effect(self, cp)

Mixer_costing(self, u, cp) == Effect(self, cp)

\* variant: fix(0) applied to the shared parameter instead of operating_cost
PressureExchanger_costing_fixes_param(self, u, cp) ==
    LET c0 == make_vars(self)
        c1 == AddConstraint(c0, u, cp, "eq_capital_cost", {"pxr_cost"})
    IN  Effect(c1, IF "pxr_cost" \in DOMAIN cp
                   THEN [cp EXCEPT !["pxr_cost"].value = <<0>>] ELSE cp)

PressureExchanger_costing(self, u, cp) ==
    LET c0 == make_vars(self)
        c1 == AddConstraint(c0, u, cp, "eq_capital_cost", {"pxr_cost"})
        c2 == FixOperatingCost(c1)
    IN  Effect(c2, cp)

PumpTypes == {"centrifugal", "High pressure", "Pressure exchanger"}

\* variant: no purchase_cost / cp_cost_eq, only the two cost variables
pressure_changer_costing_no_purchase(self, u, cp) ==
    LET c1 == make_vars(self)
    IN  IF self.pump_type = "High pressure"
        THEN LET c2 == AddConstraint(c1, u, cp, "eq_capital_cost", {"hp_pump_cost"})
                 c3 == AddConstraint(c2, u, cp, "eq_operating_cost",
                                     {"load_factor", "electricity_cost"})
             IN  Effect(c3, cp)
        ELSE IF self.pump_type = "Pressure exchanger"
        THEN LET c2 == AddConstraint(c1, u, cp, "eq_capital_cost", {"erd_cost"})
                 c3 == SetOperatingLb(c2)
                 c4 == AddConstraint(c3, u, cp, "eq_operating_cost",
                                     {"load_factor", "electricity_cost"})
             IN  Effect(c4, cp)
        ELSE Effect(c1, cp)

\* variant: the lower bound is relaxed before the capital-cost constraint
pressure_changer_costing_setlb_first(self, u, cp) ==
    LET c0 == make_vars(self)
        c1 == [c0 EXCEPT !.comps = @ \cup {"purchase_cost", "cp_cost_eq"}]
    IN  IF self.pump_type = "High pressure"
        THEN LET c2 == AddConstraint(c1, u, cp, "eq_capital_cost", {"hp_pump_cost"})
                 c3 == AddConstraint(c2, u, cp, "eq_operating_cost",
                                     {"load_factor", "electricity_cost"})
             IN  Effect(c3, cp)
        ELSE IF self.pump_type = "Pressure exchanger"
        THEN LET c2 == SetOperatingLb(c1)
                 c3 == AddConstraint(c2, u, cp, "eq_capital_cost", {"erd_cost"})
                 c4 == AddConstraint(c3, u, cp, "eq_operating_cost",
                                     {"load_factor", "electricity_cost"})
             IN  Effect(c4, cp)
        ELSE Effect(c1, cp)

pressure_changer_costing(self, u, cp) ==
    LET c0 == make_vars(self)
        c1 == [c0 EXCEPT !.comps = @ \cup {"purchase_cost", "cp_cost_eq"}]
    IN  IF self.pump_type = "High pressure"
        THEN LET c2 == AddConstraint(c1, u, cp, "eq_capital_cost", {"hp_pump_cost"})
                 c3 == AddConstraint(c2, u, cp, "eq_operating_cost",
                                     {"load_factor", "electricity_cost"})
             IN  Effect(c3, cp)
        ELSE IF self.pump_type = "Pressure exchanger"
        THEN LET c2 == AddConstraint(c1, u, cp, "eq_capital_cost", {"erd_cost"})
                 c3 == SetOperatingLb(c2)
                 c4 == AddConstraint(c3, u, cp, "eq_operating_cost",
                                     {"load_factor", "electricity_cost"})
             IN  Effect(c4, cp)
        ELSE Effect(c1, cp)

\* the costing blocks a unit's get_costing can create
CostingCalls ==
    {Block(m, "") : m \in {"ReverseOsmosis_costing", "Nanofiltration_costing",
                           "Chlorination_costing", "rstoic_costing",
                           "Separator_costing", "Mixer_costing",
                           "PressureExchanger_costing"}}
    \cup {Block("pressure_changer_costing", t) : t \in PumpTypes}

CostingMethod(self, u, cp) ==
    CASE self.method = "ReverseOsmosis_costing" -> ReverseOsmosis_costing(self, u, cp)
      [] self.method = "Nanofiltration_costing" -> Nanofiltration_costing(self, u, cp)
      [] self.method = "Chlorination_costing" -> Chlorination_costing(self, u, cp)
      [] self.method = "rstoic_costing" -> rstoic_costing(self, u, cp)
      [] self.method = "Separator_costing" -> Separator_costing(self, u, cp)
      [] self.method = "Mixer_costing" -> Mixer_costing(self, u, cp)
      [] self.method = "PressureExchanger_costing" -> PressureExchanger_costing(self, u, cp)
      [] OTHER -> pressure_changer_costing(self, u, cp)

\* unit.get_costing: attach a costing block to the unit and run its method
UnitCosting ==
    /\ params_pc = "returned"
    /\ \E u \in Units, self \in CostingCalls :
          /\ unit_costing[u].method = "none"
          /\ LET eff == CostingMethod(self, u, costing_param)
             IN  /\ unit_costing' = [unit_costing EXCEPT ![u] = eff.costing]
                 /\ costing_param' = eff.costing_param
    /\ UNCHANGED <<params_pc, params_msg, fs_costing, sys_calls, sys_error>>
    /\ UNCHANGED <<evapVars, argVars, scaleVars, zoVars, roVars>>

-----------------------------------------------------------------------------
(* financials.get_system_costing *)

SystemVars ==
    <<"capital_cost_total", "investment_cost_total", "operating_cost_MLC",
      "operating_cost_total", "LCOW">>

NoSystemCosting == [exists |-> FALSE, created |-> <<>>, expr |-> <<>>]

\* b.<name> = Var(...) / Constraint(...): the block gets a new component of
\* that name, made by call k; a component already there is replaced by it
setattr(b, name, k) ==
    [b EXCEPT !.created =
        [n \in (DOMAIN @) \cup {name} |-> IF n = name THEN k ELSE @[n]]]

\* an expression: a sum of products of variables over a product of variables
Expr(sum, den) == [sum |-> sum, den |-> den]

SetConstraint(b, name, e, k) ==
    LET b1 == setattr(b, name, k)
    IN  [b1 EXCEPT !.expr =
            [n \in (DOMAIN @) \cup {name} |-> IF n = name THEN e ELSE @[n]]]

\* lines 75-77: the costing block is created only if fs has none
CostingBlock(fc) == IF fc.exists THEN fc ELSE [fc EXCEPT !.exists = TRUE]

\* lines 79-98: the five system variables
RECURSIVE DeclareSystemVars(_, _, _)
DeclareSystemVars(b, i, k) ==
    IF i > Len(SystemVars) THEN b
    ELSE DeclareSystemVars(setattr(b, SystemVars[i], k), i + 1, k)

\* line 102-103: the blocks below fs, at any depth, that have a costing attribute
CostedUnits(uc) ==
    LET hasattr_costing(u) == uc[u].method # "none"
    IN  SelectSeq(UnitOrder, hasattr_costing)

\* lines 104-105 raise AttributeError on a costing block without the cost variables
LacksCostVars(uc) ==
    \E u \in Units : /\ uc[u].method # "none"
                     /\ ~({"capital_cost", "operating_cost"} \subseteq uc[u].comps)

\* lines 100, 104
capital_cost_var_lst(uc) ==
    LET us == CostedUnits(uc)
    IN  [i \in 1..Len(us) |-> << <<us[i], "capital_cost">> >>]

\* variant: operating_cost_MLC appended inside the loop, once per unit
operating_cost_var_lst_in_loop(uc) ==
    LET us == CostedUnits(uc)
        mlc == << <<"costing", "operating_cost_MLC">> >>
    IN  [i \in 1..(2 * Len(us)) |->
            IF i % 2 = 1 THEN << <<us[(i + 1) \div 2], "operating_cost">> >> ELSE mlc]

\* lines 101, 105, 106
operating_cost_var_lst(uc) ==
    LET us == CostedUnits(uc)
    IN  Append([i \in 1..Len(us) |-> << <<us[i], "operating_cost">> >>],
               << <<"costing", "operating_cost_MLC">> >>)

\* lines 108-120: the five constraints; an expression that names a parameter
\* missing from costing_param raises AttributeError
SystemConstraints(b, uc, cp, k) ==
    LET P(n)  == <<"costing_param", n>>
        V(n)  == <<"costing", n>>
        b1 == SetConstraint(b, "eq_capital_cost_total",
                            Expr(capital_cost_var_lst(uc), <<>>), k)
        b2 == SetConstraint(b1, "eq_investment_cost_total",
                Expr(<< <<V("capital_cost_total"), P("factor_total_investment")>> >>,
                     <<>>), k)
        b3 == SetConstraint(b2, "eq_operating_cost_MLC",
                Expr(<< <<V("investment_cost_total"), P("factor_MLC")>> >>, <<>>), k)
        b4 == SetConstraint(b3, "eq_operating_cost_total",
                            Expr(operating_cost_var_lst(uc), <<>>), k)
        b5 == SetConstraint(b4, "eq_LCOW",
                Expr(<< <<V("investment_cost_total"),
                          P("factor_capital_annualization")>>,
                        <<V("operating_cost_total")>> >>,
                     << <<"fs", "annual_water_production">> >>), k)
    IN  IF "factor_total_investment" \notin DOMAIN cp
        THEN [costing |-> b1, error |-> "AttributeError"]
        ELSE IF "factor_MLC" \notin DOMAIN cp
        THEN [costing |-> b2, error |-> "AttributeError"]
        ELSE IF "factor_capital_annualization" \notin DOMAIN cp
        THEN [costing |-> b4, error |-> "AttributeError"]
        ELSE [costing |-> b5, error |-> "none"]

\* call number k of get_system_costing on fs
get_system_costing(fc, uc, cp, k) ==
    LET b == DeclareSystemVars(CostingBlock(fc), 1, k)
        out == IF LacksCostVars(uc)
               THEN [costing |-> b, error |-> "AttributeError"]
               ELSE SystemConstraints(b, uc, cp, k)
    IN  [costing |-> out.costing, error |-> out.error, costing_param |-> cp]

GetSystemCosting ==
    /\ params_pc = "returned"
    /\ sys_calls < MaxCalls
    /\ LET out == get_system_costing(fs_costing, unit_costing, costing_param,
                                     sys_calls + 1)
       IN  /\ fs_costing' = out.costing
           /\ sys_error' = out.error
           /\ costing_param' = out.costing_param
    /\ sys_calls' = sys_calls + 1
    /\ UNCHANGED <<params_pc, params_msg, unit_costing>>
    /\ UNCHANGED <<evapVars, argVars, scaleVars, zoVars, roVars>>

-----------------------------------------------------------------------------
(* The costing module: initial state and steps *)

CostInit ==
    /\ costing_param = <<>>
    /\ params_pc = "absent"
    /\ params_msg = <<>>
    /\ unit_costing = [u \in Units |-> NoCosting]
    /\ fs_costing = NoSystemCosting
    /\ sys_calls = 0
    /\ sys_error = "none"

CostNext ==
    \/ add_costing_param_block
    \/ UnitCosting
    \/ GetSystemCosting

-----------------------------------------------------------------------------
(* Feed_side.calculate_scaling_factors *)

\* properties_vapor[0].enth_flow_phase['Vap']
vapor_enth == <<"properties_vapor", "enth_flow_phase[Vap]">>

\* the variables and constraints of the unit the scaling pass is about
Scalable == {heat_transfer, vapor_enth} \cup {<<"unit", c>> : c \in BalanceConstraints}

\* the scaling factors a script or a property package sets are 1..MaxScale
MaxScale == 3

ScaleStart ==
    /\ scaling_factor = [c \in Scalable |-> <<>>]
    /\ default_scaling = <<>>
    /\ scale_before = [c \in Scalable |-> <<>>]
    /\ scale_trace = <<>>
    /\ scale_error = "none"

\* iscale.get_scaling_factor(c): <<>> (None) when the suffix has no entry
get_scaling_factor(sf, c) == sf[c]

\* iscale.set_scaling_factor(c, v): the suffix stores v as given
set_scaling_factor(sf, c, v) == [sf EXCEPT ![c] = v]

\* the flowsheet script sets a scaling factor on a variable of the unit
UserSetScalingFactor ==
    /\ evap_pc = "built"
    /\ scale_trace = <<>>
    /\ \E c \in {heat_transfer, vapor_enth}, k \in 1..MaxScale :
          /\ get_scaling_factor(scaling_factor, c) # <<k>>
          /\ scaling_factor' = set_scaling_factor(scaling_factor, c, <<k>>)
    /\ UNCHANGED <<default_scaling, scale_before, scale_trace, scale_error>>
    /\ UNCHANGED <<evapVars, argVars, costVars, zoVars, roVars>>

\* the vapor property package is given a scale for its enthalpy flow
SetDefaultScaling ==
    /\ evap_pc = "built"
    /\ scale_trace = <<>>
    /\ \E k \in 1..MaxScale :
          /\ default_scaling # <<k>>
          /\ default_scaling' = <<k>>
    /\ UNCHANGED <<scaling_factor, scale_before, scale_trace, scale_error>>
    /\ UNCHANGED <<evapVars, argVars, costVars, zoVars, roVars>>

\* super().calculate_scaling_factors(): the state blocks' pass gives the
\* enthalpy flow the package's scale when it has none
SuperScalingPass(sf, dflt) ==
    IF get_scaling_factor(sf, vapor_enth) = <<>>
    THEN set_scaling_factor(sf, vapor_enth, dflt)
    ELSE sf

\* variant: heat_transfer is rescaled whether or not it has a scaling factor
OwnScalingPassOverwrites(sf) ==
    [sf    |-> set_scaling_factor(sf, heat_transfer,
                                  get_scaling_factor(sf, vapor_enth)),
     error |-> "none"]

\* variant: a missing enthalpy-flow scale is an error
OwnScalingPassStrict(sf) ==
    IF get_scaling_factor(sf, heat_transfer) = <<>>
    THEN IF get_scaling_factor(sf, vapor_enth) = <<>>
         THEN [sf |-> sf, error |-> "ConfigurationError"]
         ELSE [sf    |-> set_scaling_factor(sf, heat_transfer,
                                            get_scaling_factor(sf, vapor_enth)),
               error |-> "none"]
    ELSE [sf |-> sf, error |-> "none"]

\* lines 343-345; the constraint scaling below them is commented out
OwnScalingPass(sf) ==
    IF get_scaling_factor(sf, heat_transfer) = <<>>
    THEN [sf    |-> set_scaling_factor(sf, heat_transfer,
                                       get_scaling_factor(sf, vapor_enth)),
          error |-> "none"]
    ELSE [sf |-> sf, error |-> "none"]

\* lines 340-345
calculate_scaling_factors ==
    /\ evap_pc = "built"
    /\ scale_trace = <<>>
    /\ scale_before' = scaling_factor
    /\ LET out == OwnScalingPass(SuperScalingPass(scaling_factor, default_scaling))
       IN  /\ scaling_factor' = out.sf
           /\ scale_error' = out.error
    /\ scale_trace' = <<"super", "own">>
    /\ UNCHANGED default_scaling
    /\ UNCHANGED <<evapVars, argVars, costVars, zoVars, roVars>>

ScaleNext ==
    \/ build
    \/ UserSetScalingFactor
    \/ SetDefaultScaling
    \/ calculate_scaling_factors

-----------------------------------------------------------------------------
(* AerationBasinZO.load_parameters_from_database *)

\* the solutes a property package may list
Solutes == {"viruses_enteric", "bod", "foo"}

\* the order a solute_list keeps them in
SoluteOrder == <<"viruses_enteric", "bod", "foo">>

\* process subtypes of the technology in the database
Subtypes == {"default", "alt"}

\* the time domain of a steady-state flowsheet
Time == {0}

\* Database.get_unit_operation_parameters("aeration_basin", subtype), values
\* in units of 1e-5; "foo" is in no parameter set
get_unit_operation_parameters(subtype) ==
    IF subtype = "default"
    THEN [recovery_frac_mass_H2O |-> 100000,
          removal_frac_mass_solute |->
              [j \in {"viruses_enteric", "bod"} |->
                  IF j = "bod" THEN 70000 ELSE 99000],
          default_removal_frac_mass_solute |-> 0,
          energy_electric_flow_vol_inlet |-> 41227]
    ELSE [recovery_frac_mass_H2O |-> 90000,
          removal_frac_mass_solute |->
              [j \in {"viruses_enteric", "bod"} |->
                  IF j = "bod" THEN 60000 ELSE 50000],
          default_removal_frac_mass_solute |-> 10000,
          energy_electric_flow_vol_inlet |-> 30000]

\* the parameter variables of the unit: <<name, time point, solute>>
recovery_frac_mass_H2O(t) == <<"recovery_frac_mass_H2O", t, "">>

removal_frac_mass_solute(t, j) == <<"removal_frac_mass_solute", t, j>>

energy_electric_flow_vol_inlet == <<"energy_electric_flow_vol_inlet", 0, "">>

ZOParams(solute_list) ==
    {recovery_frac_mass_H2O(t) : t \in Time}
      \cup {removal_frac_mass_solute(t, j) : t \in Time, j \in solute_list}
      \cup {energy_electric_flow_vol_inlet}

\* values a script fixes a parameter at before the database is read
ScriptValues == {5}

ZOStart(lists) ==
    /\ zo_config \in [solute_list : lists, process_subtype : {"default"}]
    /\ zo_vars = <<>>
    /\ zo_pc = "unbuilt"
    /\ zo_default = FALSE
    /\ zo_error = "none"

\* AerationBasinZO(property_package, database)
ZOBuild ==
    /\ zo_pc = "unbuilt"
    /\ zo_vars' = [v \in ZOParams(zo_config.solute_list) |-> Var(<<>>)]
    /\ zo_pc' = "built"
    /\ UNCHANGED <<zo_config, zo_default, zo_error>>
    /\ UNCHANGED <<evapVars, argVars, costVars, scaleVars, roVars>>

\* unit.config.process_subtype = subtype
SetSubtype ==
    /\ zo_pc = "built"
    /\ \E st \in Subtypes \ {zo_config.process_subtype} :
          zo_config' = [zo_config EXCEPT !.process_subtype = st]
    /\ UNCHANGED <<zo_vars, zo_pc, zo_default, zo_error>>
    /\ UNCHANGED <<evapVars, argVars, costVars, scaleVars, roVars>>

\* the script fixes a parameter itself before the database is read
UserFixParam ==
    /\ zo_pc = "built"
    /\ \E v \in DOMAIN zo_vars, x \in ScriptValues :
          /\ ~zo_vars[v].fixed
          /\ zo_vars' = [zo_vars EXCEPT ![v] = [@ EXCEPT !.value = <<x>>,
                                                        !.fixed = TRUE]]
    /\ UNCHANGED <<zo_config, zo_pc, zo_default, zo_error>>
    /\ UNCHANGED <<evapVars, argVars, costVars, scaleVars, roVars>>

\* set_param_from_data: the variable is fixed at the value of the data
set_param_from_data(vs, v, x) ==
    [vs EXCEPT ![v] = [@ EXCEPT !.value = <<x>>, !.fixed = TRUE]]

\* the removal fractions, solute after solute; a solute the data do not list
\* takes the default when use_default_removal, and is a KeyError otherwise
RECURSIVE set_removal(_, _, _, _, _)
set_removal(vs, data, solute_list, use_default_removal, i) ==
    IF i > Len(SoluteOrder) THEN [vars |-> vs, error |-> "none"]
    ELSE LET j == SoluteOrder[i]
             listed == j \in DOMAIN data.removal_frac_mass_solute
             set(x) == [k \in DOMAIN vs |->
                          IF \E t \in Time : k = removal_frac_mass_solute(t, j)
                          THEN [vs[k] EXCEPT !.value = <<x>>, !.fixed = TRUE]
                          ELSE vs[k]]
         IN  IF j \notin solute_list
             THEN set_removal(vs, data, solute_list, use_default_removal, i + 1)
             ELSE IF listed
             THEN set_removal(set(data.removal_frac_mass_solute[j]), data,
                              solute_list, use_default_removal, i + 1)
             ELSE IF use_default_removal
             THEN set_removal(set(data.default_removal_frac_mass_solute), data,
                              solute_list, use_default_removal, i + 1)
             ELSE [vars |-> vs, error |-> "KeyError"]

\* variant: the electricity intensity is not read from the database
load_parameters_without_energy(vs, cfg, use_default_removal) ==
    LET data == get_unit_operation_parameters(cfg.process_subtype)
        rec  == [k \in DOMAIN vs |->
                   IF \E t \in Time : k = recovery_frac_mass_H2O(t)
                   THEN [vs[k] EXCEPT !.value = <<data.recovery_frac_mass_H2O>>,
                                      !.fixed = TRUE]
                   ELSE vs[k]]
    IN  set_removal(rec, data, cfg.solute_list, use_default_removal, 1)

\* load_parameters_from_database(use_default_removal): water recovery, the
\* removal fractions, then the electricity intensity
load_parameters_from_database(vs, cfg, use_default_removal) ==
    LET data == get_unit_operation_parameters(cfg.process_subtype)
        rec  == [k \in DOMAIN vs |->
                   IF \E t \in Time : k = recovery_frac_mass_H2O(t)
                   THEN [vs[k] EXCEPT !.value = <<data.recovery_frac_mass_H2O>>,
                                      !.fixed = TRUE]
                   ELSE vs[k]]
        rem  == set_removal(rec, data, cfg.solute_list, use_default_removal, 1)
    IN  IF rem.error # "none" THEN rem
        ELSE [vars  |-> set_param_from_data(rem.vars, energy_electric_flow_vol_inlet,
                                            data.energy_electric_flow_vol_inlet),
              error |-> "none"]

LoadParameters ==
    /\ zo_pc = "built"
    /\ \E use_default_removal \in BOOLEAN :
          LET out == load_parameters_from_database(zo_vars, zo_config,
                                                   use_default_removal)
          IN  /\ zo_default' = use_default_removal
              /\ zo_vars' = out.vars
              /\ zo_error' = out.error
              /\ zo_pc' = IF out.error = "none" THEN "loaded" ELSE "raised"
    /\ UNCHANGED zo_config
    /\ UNCHANGED <<evapVars, argVars, costVars, scaleVars, roVars>>

ZONext ==
    \/ ZOBuild
    \/ SetSubtype
    \/ UserFixParam
    \/ LoadParameters

-----------------------------------------------------------------------------
(* unit_0DRO: the 0D reverse-osmosis example runs *)

\* the functions of the module a caller (or __main__) starts
Entries == {"run_simple_RO_example", "run_detailed_RO_example", "main"}

\* the specifications build_simple_RO_example fixes, in program order
SimpleSpecs ==
    <<"inlet.flow_mass_phase_comp[0,Liq,TDS]", "inlet.flow_mass_phase_comp[0,Liq,H2O]",
      "inlet.pressure[0]", "inlet.temperature[0]",
      "area", "A_comp", "B_comp", "permeate.pressure[0]">>

\* build_detailed_RO_example fixes three more
DetailedSpecs ==
    SimpleSpecs \o <<"channel_height", "spacer_porosity", "N_Re_io[0,in]">>

SpecsOf(example) == IF example = "detailed" THEN DetailedSpecs ELSE SimpleSpecs

\* the indices of flow_mass_phase_comp given a default scaling, in order
ScalingIndices == <<"Liq,H2O", "Liq,TDS">>

ROStart(entries) ==
    /\ ro_entry \in entries
    /\ ro_example = "none"
    /\ ro_pc = "idle"
    /\ ro_fixed = {}
    /\ ro_scaling = {}
    /\ ro_trace = <<>>
    /\ ro_error = "none"
    /\ ro_runs = <<>>

\* the example the entry point runs next: __main__ runs the simple example,
\* then the detailed one
NextExample ==
    IF ro_pc = "idle"
    THEN IF ro_entry = "run_detailed_RO_example" THEN "detailed" ELSE "simple"
    ELSE IF ro_pc = "reported" /\ ro_entry = "main" /\ ro_example = "simple"
         THEN "detailed"
         ELSE "none"

\* run_*: a new model and flowsheet; build_*: the property package and the unit
ROBuild ==
    /\ NextExample # "none"
    /\ ro_example' = NextExample
    /\ ro_pc' = "built"
    /\ ro_fixed' = {}
    /\ ro_scaling' = {}
    /\ ro_trace' = <<"build">>
    /\ UNCHANGED <<ro_entry, ro_error, ro_runs>>
    /\ UNCHANGED <<evapVars, argVars, costVars, scaleVars, zoVars>>

\* the next .fix(...) of the example
ROFix ==
    /\ ro_pc = "built"
    /\ Cardinality(ro_fixed) < Len(SpecsOf(ro_example))
    /\ ro_fixed' = ro_fixed \cup {SpecsOf(ro_example)[Cardinality(ro_fixed) + 1]}
    /\ ro_trace' = Append(ro_trace, "fix")
    /\ UNCHANGED <<ro_entry, ro_example, ro_pc, ro_scaling, ro_error, ro_runs>>
    /\ UNCHANGED <<evapVars, argVars, costVars, scaleVars, zoVars>>

\* check_dof(m): returns, or raises when the degrees of freedom are not zero
ROCheckDof ==
    /\ ro_pc = "built"
    /\ Cardinality(ro_fixed) = Len(SpecsOf(ro_example))
    /\ ro_trace' = Append(ro_trace, "check_dof")
    /\ \/ ro_pc' = "dof_checked" /\ ro_error' = ro_error
       \/ ro_pc' = "raised" /\ ro_error' = "check_dof"
    /\ UNCHANGED <<ro_entry, ro_example, ro_fixed, ro_scaling, ro_runs>>
    /\ UNCHANGED <<evapVars, argVars, costVars, scaleVars, zoVars>>

\* RO_properties.set_default_scaling('flow_mass_phase_comp', ..., index=...)
ROSetDefaultScaling ==
    /\ ro_pc = "dof_checked"
    /\ Cardinality(ro_scaling) < Len(ScalingIndices)
    /\ ro_scaling' = ro_scaling \cup {ScalingIndices[Cardinality(ro_scaling) + 1]}
    /\ ro_trace' = Append(ro_trace, "set_default_scaling")
    /\ UNCHANGED <<ro_entry, ro_example, ro_pc, ro_fixed, ro_error, ro_runs>>
    /\ UNCHANGED <<evapVars, argVars, costVars, scaleVars, zoVars>>

\* calculate_scaling_factors(m.fs.RO)
ROCalculateScalingFactors ==
    /\ ro_pc = "dof_checked"
    /\ Cardinality(ro_scaling) = Len(ScalingIndices)
    /\ ro_pc' = "scaled"
    /\ ro_trace' = Append(ro_trace, "calculate_scaling_factors")
    /\ UNCHANGED <<ro_entry, ro_example, ro_fixed, ro_scaling, ro_error, ro_runs>>
    /\ UNCHANGED <<evapVars, argVars, costVars, scaleVars, zoVars>>

\* variant: the unit is initialized right after its specification
ROInitializeUnchecked ==
    /\ ro_pc = "built"
    /\ Cardinality(ro_fixed) = Len(SpecsOf(ro_example))
    /\ ro_trace' = Append(ro_trace, "initialize")
    /\ \/ ro_pc' = "initialized" /\ ro_error' = ro_error
       \/ ro_pc' = "raised" /\ ro_error' = "initialize"
    /\ UNCHANGED <<ro_entry, ro_example, ro_fixed, ro_scaling, ro_runs>>
    /\ UNCHANGED <<evapVars, argVars, costVars, scaleVars, zoVars>>

\* m.fs.RO.initialize(optarg=...): returns, or raises
ROInitialize ==
    /\ ro_pc = "scaled"
    /\ ro_trace' = Append(ro_trace, "initialize")
    /\ \/ ro_pc' = "initialized" /\ ro_error' = ro_error
       \/ ro_pc' = "raised" /\ ro_error' = "initialize"
    /\ UNCHANGED <<ro_entry, ro_example, ro_fixed, ro_scaling, ro_runs>>
    /\ UNCHANGED <<evapVars, argVars, costVars, scaleVars, zoVars>>

\* solve_with_user_scaling(m): returns with a termination condition, or raises
ROSolve ==
    /\ ro_pc = "initialized"
    /\ ro_trace' = Append(ro_trace, "solve")
    /\ \/ \E tc \in SolverReturns : ro_pc' = tc /\ ro_error' = ro_error
       \/ ro_pc' = "raised" /\ ro_error' = "solve"
    /\ UNCHANGED <<ro_entry, ro_example, ro_fixed, ro_scaling, ro_runs>>
    /\ UNCHANGED <<evapVars, argVars, costVars, scaleVars, zoVars>>

\* m.fs.RO.report()
ROReport ==
    /\ ro_pc \in SolverReturns
    /\ ro_runs' = Append(ro_runs, <<ro_example, ro_pc>>)
    /\ ro_pc' = "reported"
    /\ ro_trace' = Append(ro_trace, "report")
    /\ UNCHANGED <<ro_entry, ro_example, ro_fixed, ro_scaling, ro_error>>
    /\ UNCHANGED <<evapVars, argVars, costVars, scaleVars, zoVars>>

RONext ==
    \/ ROBuild
    \/ ROFix
    \/ ROCheckDof
    \/ ROSetDefaultScaling
    \/ ROCalculateScalingFactors
    \/ ROInitialize
    \/ ROSolve
    \/ ROReport

-----------------------------------------------------------------------------
(* Specifications *)

\* the evaporator: build, user specification, staged initialization
InitEvap == ConfigInit /\ EvapStart /\ CostInit /\ ScaleStart /\ ZOStart({{}})
              /\ ROStart({"main"})

SpecEvap == InitEvap /\ [][EvapNext]_vars

\* the costing module on a flowsheet of NumUnits units
InitCost ==
    /\ config = [property_package_feed |-> TRUE, property_package_vapor |-> TRUE]
    /\ EvapStart
    /\ CostInit
    /\ ScaleStart
    /\ ZOStart({{}})
    /\ ROStart({"main"})

SpecCost == InitCost /\ [][CostNext]_vars

\* the scaling pass on a built evaporator
InitScale == ConfigInit /\ EvapStart /\ CostInit /\ ScaleStart /\ ZOStart({{}})
              /\ ROStart({"main"})

SpecScale == InitScale /\ [][ScaleNext]_vars

\* the aeration basin: build, subtype, parameters from the database
InitZO ==
    /\ config = [property_package_feed |-> TRUE, property_package_vapor |-> TRUE]
    /\ EvapStart
    /\ CostInit
    /\ ScaleStart
    /\ ZOStart(SUBSET Solutes \ {{}})
    /\ ROStart({"main"})

SpecZO == InitZO /\ [][ZONext]_vars

\* the 0D reverse-osmosis examples, from each entry point
InitRO ==
    /\ config = [property_package_feed |-> TRUE, property_package_vapor |-> TRUE]
    /\ EvapStart
    /\ CostInit
    /\ ScaleStart
    /\ ZOStart({{}})
    /\ ROStart(Entries)

SpecRO == InitRO /\ [][RONext]_vars

-----------------------------------------------------------------------------
(* Properties of Feed_side.initialize and Feed_side.build (SpecEvap) *)

InitializeEnded == evap_pc \in {"returned", "raised"}

NonOptimal == SolverReturns \ {"optimal"}

FeedVars == StateVars("properties_feed")

\* C1: whenever initialize ends, by returning or by an exception, after the
\* feed block was initialized with hold_state=True, release_state has been
\* called on the feed block with the flags of that hold.
C1_FeedReleasedAtEnd ==
    (InitializeEnded /\ flags # <<>>) => release_flags = flags

\* C2: whenever initialize ends, it has performed exactly the stages feed
\* hold, brine, vapor, solve, release, in this order, each once, and the
\* release got exactly the flags the hold returned.
C2_StagesInOrder ==
    InitializeEnded =>
        /\ trace = <<"feed_hold", "brine", "vapor", "solve", "release">>
        /\ release_flags = flags

\* C3 as stated: after a non-optimal solver termination initialize does not
\* raise and returns the termination status to its caller.
C3_StatusReturned ==
    (InitializeEnded /\ res \in NonOptimal) =>
        (evap_pc = "returned" /\ ret = res)

\* C3 amended: after a non-optimal solver termination initialize does not
\* raise; it returns None, and the termination condition is reported in its
\* final initialization log message.
C3_StatusLoggedNotReturned ==
    (InitializeEnded /\ res \in NonOptimal) =>
        /\ evap_pc = "returned"
        /\ ret = "None"
        /\ init_log[Len(init_log)] = <<"Initialization Complete", res>>

C3_Witness == evap_pc = "returned" /\ res = "infeasible"

\* C4: after initialize returns, the fixed variables of the unit are exactly
\* those that were fixed when it was called.
C4_RoundTrip == evap_pc = "returned" => fixed = fixed_before

C4_Witness ==
    /\ evap_pc = "returned"
    /\ FeedVars \ fixed_before # {}
    /\ FeedVars \cap fixed_before # {}
    /\ heat_transfer \in fixed_before
    /\ release_flags = <<FeedVars \cap fixed_before>>

-----------------------------------------------------------------------------
(* Properties of the costing module (SpecCost) *)

Count(x, seq) == Cardinality({i \in DOMAIN seq : seq[i] = x})

\* a sequence as a bag: element -> number of occurrences
BagOfSeq(s) == [x \in {s[i] : i \in DOMAIN s} |-> Count(x, s)]

\* a sum of products up to the order of summands and factors
Norm(sum) == BagOfSeq([i \in DOMAIN sum |-> BagOfSeq(sum[i])])

Costed(u) == unit_costing[u].method # "none"

\* C5: a second get_system_costing call on a flowsheet whose first call
\* succeeded succeeds, reuses the costing block and leaves every variable and
\* constraint of the block as the first call created it (none re-created).
C5_SecondCallIdempotent ==
    [][(/\ sys_calls = 1 /\ sys_calls' = 2
        /\ sys_error = "none"
        /\ ~LacksCostVars(unit_costing))
       => (/\ sys_error' = "none"
           /\ fs_costing'.exists
           /\ DOMAIN fs_costing'.created = DOMAIN fs_costing.created
           /\ fs_costing'.created = fs_costing.created)]_vars

\* C6: a get_system_costing call succeeds and puts the capital_cost and the
\* operating_cost of every unit that has a costing block, whatever costing
\* method produced it, exactly once into the capital and the operating total,
\* and nothing of any other block.
C6_AllCostingBlocksAggregated ==
    [][(sys_calls' = sys_calls + 1)
       => (/\ sys_error' = "none"
           /\ LET cap == fs_costing'.expr["eq_capital_cost_total"].sum
                  op  == fs_costing'.expr["eq_operating_cost_total"].sum
              IN  /\ \A u \in Units :
                        /\ Count(<< <<u, "capital_cost">> >>, cap)
                              = (IF Costed(u) THEN 1 ELSE 0)
                        /\ Count(<< <<u, "operating_cost">> >>, op)
                              = (IF Costed(u) THEN 1 ELSE 0)
                  /\ Len(cap) = Cardinality({u \in Units : Costed(u)})
                  /\ Len(op) = Len(cap) + 1)]_vars

\* C7: the constraints a successful get_system_costing call defines are
\*   investment_cost_total = capital_cost_total * factor_total_investment
\*   operating_cost_MLC    = investment_cost_total * factor_MLC
\*   operating_cost_total  = operating_cost_MLC (once) + unit operating costs
\*   LCOW = (investment_cost_total * factor_capital_annualization
\*           + operating_cost_total) / annual_water_production
C7_SystemConstraints ==
    [][(sys_calls' = sys_calls + 1 /\ sys_error' = "none")
       => LET e    == fs_costing'.expr
              P(n) == <<"costing_param", n>>
              V(n) == <<"costing", n>>
              unit_op == {<< <<u, "operating_cost">> >> : u \in {w \in Units : Costed(w)}}
              mlc  == << V("operating_cost_MLC") >>
          IN  /\ Norm(e["eq_investment_cost_total"].sum)
                   = Norm(<< <<V("capital_cost_total"), P("factor_total_investment")>> >>)
              /\ e["eq_investment_cost_total"].den = <<>>
              /\ Norm(e["eq_operating_cost_MLC"].sum)
                   = Norm(<< <<V("investment_cost_total"), P("factor_MLC")>> >>)
              /\ e["eq_operating_cost_MLC"].den = <<>>
              /\ BagOfSeq(e["eq_operating_cost_total"].sum)
                   = [t \in unit_op \cup {mlc} |-> 1]
              /\ e["eq_operating_cost_total"].den = <<>>
              /\ Norm(e["eq_LCOW"].sum)
                   = Norm(<< <<V("investment_cost_total"),
                               P("factor_capital_annualization")>>,
                             <<V("operating_cost_total")>> >>)
              /\ e["eq_LCOW"].den = << <<"fs", "annual_water_production">> >>]_vars

C7_Witness ==
    /\ sys_calls >= 1
    /\ sys_error = "none"
    /\ "eq_LCOW" \in DOMAIN fs_costing.expr
    /\ Len(fs_costing.expr["eq_operating_cost_total"].sum) >= 3

\* C8: add_costing_param_block ends in one of two ways: with a
\* ConfigurationError naming the parameter block and a parameter that has no
\* value, when there is such a parameter; otherwise by returning with every
\* Var of costing_param holding a value and fixed.
C8_ParamOutcomes ==
    params_pc # "absent" =>
        LET unset == {n \in DOMAIN costing_param : costing_param[n].value = <<>>}
        IN  /\ DOMAIN costing_param = ParamNames
            /\ IF unset # {}
               THEN /\ params_pc = "raised"
                    /\ params_msg # <<>>
                    /\ params_msg[1] = "fs.costing_param"
                    /\ params_msg[2] \in unset
               ELSE /\ params_pc = "returned"
                    /\ \A n \in ParamNames :
                          costing_param[n].fixed /\ costing_param[n].value # <<>>

C8_Witness ==
    /\ params_pc = "returned"
    /\ \A n \in ParamNames : costing_param[n].fixed
    /\ costing_param["hp_pump_cost"].value = <<1908>>

\* C9: once add_costing_param_block has returned, no call of
\* get_system_costing or of a unit costing method changes costing_param: no
\* value, fixed flag or bound changes and no parameter is added or removed.
C9_ParamsReadOnly ==
    [][params_pc = "returned" => costing_param' = costing_param]_vars

C9_Witness ==
    /\ params_pc = "returned"
    /\ sys_calls >= 1
    /\ \E u \in Units : unit_costing[u].method = "PressureExchanger_costing"
    /\ \E u \in Units : unit_costing[u].refs # {}
    /\ costing_param = FixLoop(DeclareParams, 1).block

CostVarNames == {"capital_cost", "operating_cost", "purchase_cost"}

\* the Vars and the Constraints a costing block holds
CostVarsOf(u) == unit_costing[u].comps \cap CostVarNames

CostConstraintsOf(u) == unit_costing[u].comps \ CostVarNames

OnFlowsheet(u) == parent_block(u) = "fs"

\* C11: for every pump type, pressure_changer_costing on a unit of the
\* flowsheet completes and defines the capital-cost constraint
\* eq_capital_cost, and the lower bound of operating_cost is relaxed to -1e6
\* exactly for the pressure-exchanger type.
C11_PumpTypeBranches ==
    \A u \in Units :
        (unit_costing[u].method = "pressure_changer_costing" /\ OnFlowsheet(u))
        => /\ unit_costing[u].raised = "none"
           /\ "eq_capital_cost" \in unit_costing[u].comps
           /\ (unit_costing[u].op_lb = <<-1000000>>)
                 <=> (unit_costing[u].pump_type = "Pressure exchanger")

PerUnitMethods ==
    {"ReverseOsmosis_costing", "PressureExchanger_costing",
     "pressure_changer_costing"}

-----------------------------------------------------------------------------
(* Claims about the scaling pass, checked under SpecScale *)

Scaled == scale_trace # <<>>

energy_balance == <<"unit", "eq_energy_balance">>

\* C13: calculate_scaling_factors runs the superclass pass first and then
\* its own; a heat_transfer without a scaling factor receives the one the
\* vapor enthalpy flow has after the superclass pass, and a heat_transfer
\* that had a scaling factor keeps it.
C13_SuperThenOwn ==
    Scaled =>
        /\ scale_trace = <<"super", "own">>
        /\ scale_before[heat_transfer] = <<>>
              => scaling_factor[heat_transfer] = scaling_factor[vapor_enth]
        /\ scale_before[heat_transfer] # <<>>
              => scaling_factor[heat_transfer] = scale_before[heat_transfer]
        /\ scaling_factor[vapor_enth] =
              IF scale_before[vapor_enth] = <<>> THEN default_scaling
              ELSE scale_before[vapor_enth]

\* heat_transfer had no scale, the enthalpy flow got its scale only from the
\* superclass pass, and heat_transfer received it
C13_Witness ==
    /\ Scaled
    /\ scale_before[heat_transfer] = <<>>
    /\ scale_before[vapor_enth] = <<>>
    /\ scaling_factor[heat_transfer] = <<2>>

\* C14: after calculate_scaling_factors the energy balance carries the scale
\* of heat_transfer, and every variable and constraint of the unit carries a
\* positive scale.
C14_EverythingScaled ==
    Scaled =>
        /\ scaling_factor[energy_balance] = scaling_factor[heat_transfer]
        /\ \A c \in Scalable :
              /\ scaling_factor[c] # <<>>
              /\ scaling_factor[c][1] > 0

\* C15: when the vapor enthalpy flow has no scaling factor and heat_transfer
\* had none, calculate_scaling_factors completes without raising and
\* heat_transfer still has no scaling factor.
C15_MissingScaleNonFatal ==
    (Scaled /\ scale_before[heat_transfer] = <<>>
            /\ scaling_factor[vapor_enth] = <<>>)
        => /\ scale_error = "none"
           /\ get_scaling_factor(scaling_factor, heat_transfer) = <<>>

C15_Witness ==
    /\ Scaled
    /\ scale_before[heat_transfer] = <<>>
    /\ default_scaling = <<>>
    /\ scaling_factor[vapor_enth] = <<>>
    /\ scale_error = "none"

-----------------------------------------------------------------------------
(* Claims about the state_args of initialize, checked under SpecEvap *)

InitializeStarted == trace # <<>>

\* the dictionary d holds the current value of every port member of the feed
CopyOfFeed(d) ==
    /\ DOMAIN d = PortMembers
    /\ \A k \in PortMembers :
          IF is_indexed(k)
          THEN /\ DOMAIN d[k] = FeedIndex
               /\ \A m \in FeedIndex : d[k][m] = values[MemberVar(k, m)]
          ELSE d[k] = values[k]

\* C16: called without state_args, initialize hands the downstream blocks a
\* dictionary holding the current value of every port member of the feed
\* block (one entry per index of an indexed member); called with state_args,
\* it hands them on as given.
C16_StateArgsDerived ==
    InitializeStarted =>
        /\ call_args = <<>> => CopyOfFeed(state_args[1])
        /\ call_args # <<>> => state_args = call_args
        /\ args_brine # <<>> => args_brine = state_args

C16_Witness ==
    /\ evap_pc = "brine_initialized"
    /\ call_args = <<>>
    /\ values["temperature"] = 2
    /\ values["flow_mass_phase_comp[Liq,TDS]"] = 1
    /\ args_brine = state_args

DownstreamVars == StateVars("properties_brine") \cup StateVars("properties_vapor")

vapor_liquid_flow == <<"properties_vapor", "flow_mass_phase_comp[Liq,H2O]">>

\* C19: when the solver is invoked every state variable of the brine and
\* vapor blocks is unfixed.
C19_DownstreamAllFree ==
    evap_pc = "downstream_initialized" => DownstreamVars \cap fixed = {}

\* C19 (amended): initialize holds no brine or vapor state variable: when the
\* solver is invoked those fixed are the ones fixed before the call, among
\* them the vapor block's liquid water flow, which build fixes.
C19_DownstreamNotHeld ==
    evap_pc = "downstream_initialized" =>
        /\ DownstreamVars \cap fixed = DownstreamVars \cap fixed_before
        /\ vapor_liquid_flow \in fixed

C19_Witness ==
    /\ evap_pc = "downstream_initialized"
    /\ <<"properties_brine", "temperature">> \in fixed
    /\ <<"properties_brine", "pressure">> \notin fixed
    /\ <<"properties_vapor", "temperature">> \notin fixed

\* C20: the guess handed to the vapor block takes pressure and temperature
\* from state_args, its vapor water flow from the liquid water flow of
\* state_args (the feed's own when the caller gave none), and pins its liquid
\* water flow at the lower bound of that variable; the brine block receives
\* state_args unchanged.
C20_VaporGuess ==
    args_vapor # <<>> =>
        LET d == state_args[1]
            v == args_vapor[1]
        IN  /\ v["pressure"] = d["pressure"]
            /\ v["temperature"] = d["temperature"]
            /\ DOMAIN v["flow_mass_phase_comp"] = {"Liq,H2O", "Vap,H2O"}
            /\ v["flow_mass_phase_comp"]["Vap,H2O"] =
                  d["flow_mass_phase_comp"]["Liq,H2O"]
            /\ v["flow_mass_phase_comp"]["Liq,H2O"] = vapor_liq_lb
            /\ call_args = <<>> =>
                  /\ v["flow_mass_phase_comp"]["Vap,H2O"] =
                        values["flow_mass_phase_comp[Liq,H2O]"]
                  /\ v["pressure"] = values["pressure"]
                  /\ v["temperature"] = values["temperature"]
            /\ args_brine = state_args

C20_Witness ==
    /\ evap_pc = "downstream_initialized"
    /\ call_args = <<>>
    /\ values["flow_mass_phase_comp[Liq,H2O]"] = 2
    /\ args_vapor[1]["flow_mass_phase_comp"]["Vap,H2O"] = 2
    /\ args_vapor[1]["flow_mass_phase_comp"]["Liq,H2O"] = 0

-----------------------------------------------------------------------------
(* Claims about the aeration basin, checked under SpecZO *)

\* C18: after load_parameters_from_database the water recovery, the removal
\* fraction of every solute at every time point and the electricity
\* intensity are fixed at the values the database holds for the selected
\* subtype; a solute the database does not list is fixed at the default
\* removal fraction, which takes use_default_removal.
C18_ParametersLoaded ==
    zo_pc = "loaded" =>
        LET data == get_unit_operation_parameters(zo_config.process_subtype)
            listed == DOMAIN data.removal_frac_mass_solute
        IN  /\ \A t \in Time :
                  /\ zo_vars[recovery_frac_mass_H2O(t)].fixed
                  /\ zo_vars[recovery_frac_mass_H2O(t)].value
                        = <<data.recovery_frac_mass_H2O>>
            /\ \A t \in Time, j \in zo_config.solute_list :
                  /\ zo_vars[removal_frac_mass_solute(t, j)].fixed
                  /\ zo_vars[removal_frac_mass_solute(t, j)].value =
                        IF j \in listed
                        THEN <<data.removal_frac_mass_solute[j]>>
                        ELSE <<data.default_removal_frac_mass_solute>>
                  /\ j \notin listed => zo_default
            /\ zo_vars[energy_electric_flow_vol_inlet].fixed
            /\ zo_vars[energy_electric_flow_vol_inlet].value
                  = <<data.energy_electric_flow_vol_inlet>>

C18_Witness ==
    /\ zo_pc = "loaded"
    /\ zo_config.process_subtype = "alt"
    /\ zo_config.solute_list = Solutes
    /\ zo_default
    /\ zo_vars[removal_frac_mass_solute(0, "foo")].value = <<10000>>

-----------------------------------------------------------------------------
(* Further claims about the costing module, checked under SpecCost *)

ParamsRead ==
    {"RO_mem_cost", "NF_mem_cost", "factor_membrane_replacement", "pxr_cost",
     "hp_pump_cost", "erd_cost", "load_factor", "electricity_cost"}

\* C22: after add_costing_param_block every parameter a per-unit costing
\* method reads is declared and fixed, and no costing method on a unit of
\* the flowsheet fails for a parameter that does not exist.
C22_ReadParamsDeclared ==
    params_pc = "returned" =>
        /\ \A n \in ParamsRead :
              /\ n \in DOMAIN costing_param
              /\ costing_param[n].fixed
        /\ \A u \in Units : OnFlowsheet(u) => unit_costing[u].raised = "none"

\* a costing block whose method reads only declared parameters
ReadsDeclaredParams(c) ==
    \/ c.method \in {"ReverseOsmosis_costing", "Nanofiltration_costing",
                     "PressureExchanger_costing"}
    \/ c.method = "pressure_changer_costing" /\ c.pump_type = "High pressure"

\* C23: on every unit get_system_costing enumerates, at any depth below the
\* flowsheet, the parent traversal of the costing method reaches the block
\* holding costing_param: a method reading declared parameters completes.
C23_TraversalReachesParams ==
    \A u \in Units :
        ReadsDeclaredParams(unit_costing[u])
        => /\ unit_costing[u].raised = "none"
           /\ "eq_capital_cost" \in unit_costing[u].comps

-----------------------------------------------------------------------------
(* Claims about the reverse-osmosis example runs, checked under SpecRO *)

Range(q) == {q[i] : i \in 1..Len(q)}

IsPrefix(p, q) == Len(p) <= Len(q) /\ \A i \in 1..Len(p) : p[i] = q[i]

\* the steps of a complete run of an example
ExpectedSteps(example) ==
    <<"build">> \o [i \in 1..Len(SpecsOf(example)) |-> "fix"]
        \o <<"check_dof", "set_default_scaling", "set_default_scaling",
             "calculate_scaling_factors", "initialize", "solve", "report">>

\* C24: in both example runs the unit is built and every specification is
\* fixed, then check_dof runs, then the default scaling is set and the
\* scaling factors are calculated, then the unit is initialized, then the
\* solve is invoked, and only then the report is produced; initialize and
\* the solve never come before check_dof and the scaling pass.
C24_StepsInOrder ==
    ro_example # "none" =>
        /\ IsPrefix(ro_trace, ExpectedSteps(ro_example))
        /\ "check_dof" \in Range(ro_trace)
              => ro_fixed = Range(SpecsOf(ro_example))
        /\ "calculate_scaling_factors" \in Range(ro_trace)
              => ro_scaling = Range(ScalingIndices)
        /\ Range(ro_trace) \cap {"initialize", "solve"} # {}
              => {"check_dof", "calculate_scaling_factors"} \subseteq Range(ro_trace)

\* __main__ has run the simple example and reported the detailed one
C24_Witness ==
    /\ ro_entry = "main"
    /\ ro_example = "detailed"
    /\ ro_pc = "reported"
    /\ Len(ro_runs) = 2
    /\ ro_trace = ExpectedSteps("detailed")

====
